---- MODULE Spec2Model ----
(***************************************************************************)
(* Model of the Eplucon portal client (custom_components/eplucon):         *)
(* EpluconAPI.login, get_heat_pump_data, close and the helpers they call.  *)
(* One action per awaited portal response; the synchronous code between    *)
(* two awaits is part of the action that handles the response.             *)
(***************************************************************************)
EXTENDS Integers, Sequences, FiniteSets, TLC

\* Bound on the number of aiohttp.ClientSession objects one client creates.
MaxSessions == 3

\* Python None for the string-valued fields.
None == "None"

\* Stand-ins for 32-character lowercase hex tokens found on the heatpump page.
Tokens == {"a1", "b2"}

\* Stand-ins for the markup fragment served by the data endpoint.
Fragments == {"frag", "frag2"}

-----------------------------------------------------------------------------
(* Exceptions: a kind and the message as a sequence of text fragments.     *)

Exc(kind, msg) == [kind |-> kind, msg |-> msg]

NoExc == Exc("none", <<>>)

EpluconAuthError(msg) == Exc("EpluconAuthError", msg)

EpluconConnectionError(msg) == Exc("EpluconConnectionError", msg)

\* str(e) contains text
Includes(e, text) == \E i \in DOMAIN e.msg : e.msg[i] = text

\* Faults an awaited request can end in: an aiohttp.ClientError, or the
\* asyncio.TimeoutError of the session's ClientTimeout(total=30).
Faults == {"ClientError", "TimeoutError"}

Fault(kind) == Exc(kind, <<kind>>)

\* Python truthiness of an optional string.
Truthy(v) == v # None /\ v # ""

-----------------------------------------------------------------------------
(* Portal responses.                                                       *)

Resp(req, fault, status, ctype, body) ==
    [req |-> req, fault |-> fault, status |-> status, ctype |-> ctype, body |-> body]

NoBody == [kind |-> "none"]

NoResponse == Resp("none", "none", 0, "", NoBody)

FaultResponses(req) == {Resp(req, f, 0, "", NoBody) : f \in Faults}

\* Names of the anti-forgery input fields login() looks for.
token_name == "_token"

alt_tokens == <<"csrf_token", "authenticity_token", "token">>

TokenFieldNames == {token_name} \cup {alt_tokens[i] : i \in DOMAIN alt_tokens}

\* A login page: for each field name None (no such input), or its value.
LoginPages ==
    {p \in [TokenFieldNames -> {None, "", "tok"}] :
        \A i \in DOMAIN alt_tokens : p[alt_tokens[i]] # ""}

LoginPageResponses ==
    FaultResponses("login_get")
    \cup {Resp("login_get", "none", 500, "text/html", NoBody)}
    \cup {Resp("login_get", "none", 200, "text/html", [kind |-> "page", inputs |-> p]) :
            p \in LoginPages}

success_indicators == {"e-control", "heat pump", "dashboard", "logout", "heatpump"}

\* Lower-cased phrases a login response body may contain.
PostWords == {"logout", "dashboard", "welcome"}

\* Text of an alert-danger div in the login response: None when there is no
\* such div.
Alerts == {None, "", "Invalid credentials"}

LoginPostResponses ==
    FaultResponses("login_post")
    \cup {Resp("login_post", "none", 500, "text/html", NoBody)}
    \cup {Resp("login_post", "none", 200, "text/html",
               [kind |-> "post", words |-> w, alert |-> a]) :
            w \in SUBSET PostWords, a \in Alerts}

\* Heatpump page: hex is the first standalone 32-hex token (None when there
\* is none), param the first match of the module_patterns list.
HeatpumpResponses ==
    FaultResponses("heatpump_get")
    \cup {Resp("heatpump_get", "none", 500, "text/html", NoBody)}
    \cup {Resp("heatpump_get", "none", 200, "text/html",
               [kind |-> "heatpump", hex |-> h, param |-> p]) :
            h \in Tokens \cup {None}, p \in {None, "b2"}}

\* Lower-cased phrases a text/html data response may contain.
HtmlWords == {"password", "error"}

JsonBodies ==
    {[kind |-> "json", json |-> "invalid", html |-> None]}
    \cup {[kind |-> "json", json |-> "object", html |-> h] :
            h \in {None, ""} \cup Fragments}

HtmlBodies ==
    {[kind |-> "html", text |-> "", words |-> {}, title |-> None]}
    \cup {b \in {[kind |-> "html", text |-> f, words |-> w, title |-> t] :
                    f \in Fragments, w \in SUBSET HtmlWords,
                    t \in {None, "Forbidden"}} :
            b.title # None => "error" \in b.words}

DataStatuses == {401, 403, 500}

\* Body of a data response whose status is not 200: some page the code only
\* logs.
StatusPage == [kind |-> "html", text |-> "frag", words |-> {}, title |-> None]

DataResponsesFor(req) ==
    FaultResponses(req)
    \cup {Resp(req, "none", s, "text/html", StatusPage) : s \in DataStatuses}
    \cup {Resp(req, "none", 200, "application/json", b) : b \in JsonBodies}
    \cup {Resp(req, "none", 200, "text/html", b) : b \in HtmlBodies}
    \cup {Resp(req, "none", 200, "text/plain", NoBody)}

-----------------------------------------------------------------------------
(* State.                                                                  *)

VARIABLES
    session,                \* self.session: 0 is None, else the session's id
    created,                \* number of ClientSession objects created so far
    is_authenticated,       \* self.is_authenticated
    account_module_index,   \* self._account_module_index
    op,                     \* the entry point the host is in: none/login/fetch
    site,                   \* which call of login() is running
    pc,                     \* the request awaited, or the return point
    response,               \* the response last received
    exc,                    \* exception raised by the login() that just ended
    outcome,                \* how the last completed entry point ended
    hist,                   \* requests and login() calls of the current call
    last_closed,            \* id of the session close() released last
    live,                   \* ids of the sessions created and not closed
    open_ctx,               \* requests whose `async with` block is entered
    flow,                   \* the config flow's validation of this client
    reading,                \* a markup fragment on its way to a reading
    coordinator,            \* the update coordinator's refresh of this client
    portal                  \* the portal's view of the client's session

vars == <<session, created, is_authenticated, account_module_index, op, site,
          pc, response, exc, outcome, hist, last_closed, live, open_ctx, flow,
          reading, coordinator, portal>>

\* Besides the counters of requests and of runs of _parse_html_data and
\* _normalize_data: used, the sessions requests were sent on;
\* login_session and data_session, the local variable `session` of login()
\* and of get_heat_pump_data().
NoHist ==
    [login |-> 0, relogin |-> 0, login_get |-> 0, login_post |-> 0,
     heatpump_get |-> 0, disc_none |-> 0, data_get |-> 0, retry_get |-> 0,
     started_auth |-> FALSE, first_status |-> 0,
     used |-> {}, login_session |-> 0, data_session |-> 0,
     extracted |-> 0, normalized |-> 0]

\* No markup is being converted.
NoReading == [stage |-> "none"]

\* The coordinator before its first refresh: step is where
\* _async_update_data stands, raised what its last run raised, on the kind
\* of the exception it caught; started, that the client is the
\* coordinator's (no one else calls login() or get_heat_pump_data() on it);
\* last_update_success and data, the two fields the sensors read; sensors,
\* the sensor types whose entity wrote an available state when the
\* coordinator last updated its listeners.
NoData == [is_none |-> TRUE, dict |-> <<>>]

Data(d) == [is_none |-> FALSE, dict |-> d]

NoRefresh ==
    [step |-> "idle", raised |-> "none", on |-> "none", started |-> FALSE,
     last_update_success |-> TRUE, data |-> NoData, sensors |-> {}]

NoOutcome == [op |-> "none", how |-> "none", exc |-> NoExc, value |-> None]

\* The portal that may answer every request in every way.
AnyPortal == [phase |-> "any", answer |-> "none"]

\* The client after __init__, outside any config flow.
ClientInit ==
    /\ session = 0
    /\ created = 0
    /\ is_authenticated = FALSE
    /\ account_module_index = None
    /\ op = "none"
    /\ site = "none"
    /\ pc = "idle"
    /\ response = NoResponse
    /\ exc = NoExc
    /\ outcome = NoOutcome
    /\ hist = NoHist
    /\ last_closed = 0
    /\ live = {}
    /\ open_ctx = {}
    /\ flow = "none"
    /\ coordinator = NoRefresh
    /\ portal = AnyPortal

Init ==
    /\ ClientInit
    /\ reading = NoReading

-----------------------------------------------------------------------------
(* The portal's view of the client's session. In phase "any" the portal    *)
(* may answer every request in every way. Once the session has expired     *)
(* for good the portal accepts the credentials and serves data to a        *)
(* session that logged in afterwards (phase "fresh"); until that login     *)
(* (phase "expired") it answers a data request with its expired answer:    *)
(* a 401/403 status, or the login page as a 200 text/html response.        *)

ExpiredAnswers == {"status", "login_page"}

\* The portal takes part in the login: the login page carries _token, the
\* POST is answered by the dashboard, the heatpump page holds the hex token.
accepts_login(r) ==
    /\ r.fault = "none"
    /\ r.status = 200
    /\ CASE r.req = "login_get" -> r.body.inputs[token_name] = "tok"
         [] r.req = "login_post" -> "dashboard" \in r.body.words /\ r.body.alert = None
         [] r.req = "heatpump_get" -> r.body.hex # None

\* A data response that carries the status fragment and no other page.
serves_data(r) ==
    /\ r.fault = "none"
    /\ r.status = 200
    /\ \/ r.ctype = "application/json" /\ r.body.json = "object"
                                       /\ r.body.html \in Fragments
       \/ r.ctype = "text/html" /\ r.body.text \in Fragments
                                /\ r.body.words = {} /\ r.body.title = None

\* The answer to a data request on the expired session.
expired_answer(r, answer) ==
    /\ r.fault = "none"
    /\ IF answer = "status"
       THEN r.status \in {401, 403}
       ELSE /\ r.status = 200
            /\ r.ctype = "text/html"
            /\ r.body.words = {"password"}

\* The responses the portal may give out of R, the responses to a request.
Served(R) ==
    IF portal.phase = "any"
    THEN R
    ELSE {r \in R :
            IF r.req \in {"data_get", "retry_get"}
            THEN IF portal.phase = "fresh"
                 THEN serves_data(r)
                 ELSE expired_answer(r, portal.answer)
            ELSE accepts_login(r)}

\* The portal after it has given r: a login accepted after the expiry
\* makes the session fresh.
portal_after(r) ==
    IF portal.phase = "expired" /\ r.req = "login_post" /\ accepts_login(r)
    THEN [portal EXCEPT !.phase = "fresh"]
    ELSE portal

-----------------------------------------------------------------------------
(* Session manager.                                                        *)

\* Variant: every call creates a session.
AlwaysNewSession(s, c) == [session |-> c + 1, created |-> c + 1]

\* _ensure_session: a new session when there is none, else the existing one.
\* (close() sets self.session to None whenever it closes it, so a closed
\* session is never kept.)
ensure_session(s, c) ==
    IF s = 0 THEN [session |-> c + 1, created |-> c + 1]
    ELSE [session |-> s, created |-> c]

-----------------------------------------------------------------------------
(* login(): pure parts.                                                    *)

\* The CSRF token login() extracts from the page: the value of _token when
\* that input exists, else the value of the first alternative that exists.
csrf_token(inputs) ==
    IF inputs[token_name] # None THEN inputs[token_name]
    ELSE LET present == {i \in DOMAIN alt_tokens : inputs[alt_tokens[i]] # None}
         IN IF present = {} THEN None
            ELSE inputs[alt_tokens[CHOOSE i \in present : \A j \in present : i <= j]]

\* Variant: a non-200 login page is logged and the form is submitted anyway.
LoginPageStatusIgnored(r) ==
    IF r.fault # "none" THEN Fault(r.fault)
    ELSE IF r.status # 200 THEN NoExc
    ELSE IF ~Truthy(csrf_token(r.body.inputs))
    THEN EpluconAuthError(<<"Could not find CSRF token on login page">>)
    ELSE NoExc

\* What the body of `async with session.get(login_url)` raises, NoExc when
\* it runs through to the form submission.
login_page_step(r) ==
    IF r.fault # "none" THEN Fault(r.fault)
    ELSE IF r.status # 200
    THEN EpluconConnectionError(<<"Failed to load login page">>)
    ELSE IF ~Truthy(csrf_token(r.body.inputs))
    THEN EpluconAuthError(<<"Could not find CSRF token on login page">>)
    ELSE NoExc

found_indicators(words) == words \cap success_indicators

\* error_messages of the failure branch: texts of the non-empty error divs.
error_messages(body) == IF Truthy(body.alert) THEN <<body.alert>> ELSE <<>>

\* The error-message scan raises inside its own try block.
error_scan_raise(body) ==
    IF error_messages(body) # <<>>
    THEN EpluconAuthError(<<"Login failed with errors: ">> \o error_messages(body))
    ELSE EpluconAuthError(<<"Invalid credentials or login failed">>)

\* except Exception as parse_error (around the error-message scan).
error_scan_except(e) == EpluconAuthError(<<"Invalid credentials or login failed">>)

\* Whether login() sets is_authenticated on this POST response.
login_success(r) ==
    r.fault = "none" /\ r.status = 200 /\ found_indicators(r.body.words) # {}

\* Variant: every 200 answer to the POST records the authentication.
AuthenticatedOnAnyOk(r, old) ==
    IF r.fault = "none" /\ r.status = 200 THEN TRUE ELSE old

\* Variant: the success branch does not record the authentication.
AuthenticationNotRecorded(r, old) == old

\* self.is_authenticated after the POST response was classified.
authenticated_after_post(r, old) == IF login_success(r) THEN TRUE ELSE old

\* What the body of `async with session.post(...)` raises on a response that
\* is not a success.
login_post_raise(r) ==
    IF r.fault # "none" THEN Fault(r.fault)
    ELSE IF r.status = 200 THEN error_scan_except(error_scan_raise(r.body))
    ELSE EpluconConnectionError(<<"Login failed with status">>)

\* The except clauses that close login()'s try block.
LoginExcept(e) ==
    IF e.kind = "ClientError"
    THEN EpluconConnectionError(<<"Connection error during login: ">> \o e.msg)
    ELSE EpluconConnectionError(<<"Unexpected error: ">> \o e.msg)

\* _find_module_index_from_heatpump_page: the new _account_module_index.
\* Every exception is swallowed; nothing found leaves the field as it was.
find_module_index(r, old) ==
    IF r.fault # "none" \/ r.status # 200 THEN old
    ELSE IF r.body.hex # None THEN r.body.hex
    ELSE IF r.body.param # None THEN r.body.param
    ELSE old

\* What _find_module_index_from_heatpump_page raises inside its try block.
discovery_raise(r) == IF r.fault # "none" THEN Fault(r.fault) ELSE NoExc

\* Variant: the handler of the discovery lets the exception through.
DiscoveryExceptPropagates(e) == e

\* except Exception as e (discovery): logged, nothing is raised.
DiscoveryExcept(e) == NoExc

\* Discovery found no identifier in this response.
DiscoveryFoundNothing(r) ==
    \/ r.fault # "none"
    \/ r.status # 200
    \/ (r.body.hex = None /\ r.body.param = None)

-----------------------------------------------------------------------------
(* Values of a reading.  A text is a sequence of characters; a number is    *)
(* the decimal m * 10^-e with the fewest fraction digits (float compares    *)
(* by value); True and False are the integers 1 and 0 of type bool.         *)

MaxKeys == 1            \* keys of a reading handed to _normalize_data directly
MaxPointers == 2        \* pointer elements of a markup fragment

NoneVal == [t |-> "none", m |-> 0, e |-> 0, s |-> <<>>]
Num(m, e) == [t |-> "num", m |-> m, e |-> e, s |-> <<>>]
Bool(b) == [t |-> "bool", m |-> IF b THEN 1 ELSE 0, e |-> 0, s |-> <<>>]
Str(s) == [t |-> "str", m |-> 0, e |-> 0, s |-> s]

RECURSIVE Pow10(_)
Pow10(n) == IF n = 0 THEN 1 ELSE 10 * Pow10(n - 1)

\* dict.get(key): None when the key is absent.
Get(d, k) == IF k \in DOMAIN d THEN d[k] ELSE NoneVal

\* str(value), of a value that is not None.
py_str(v) == IF v.t = "str" THEN v ELSE [v EXCEPT !.t = "str", !.s = <<v.t>>]

-----------------------------------------------------------------------------
(* The extractors: re.search over the text, then float() of the group.     *)

Digits == <<"0", "1", "2", "3", "4", "5", "6", "7", "8", "9">>

IsDigit(c) == \E d \in 1..10 : Digits[d] = c

DigitValue(c) == (CHOOSE d \in 1..10 : Digits[d] = c) - 1

\* \s
IsSpace(c) == c \in {" ", "\n", "\t"}

\* The position after the longest run of digits (\d*) that starts at i.
RECURSIVE SkipDigits(_, _)
SkipDigits(text, i) ==
    IF i <= Len(text) /\ IsDigit(text[i]) THEN SkipDigits(text, i + 1) ELSE i

\* The position after the longest run of whitespace (\s*) that starts at i.
RECURSIVE SkipSpaces(_, _)
SkipSpaces(text, i) ==
    IF i <= Len(text) /\ IsSpace(text[i]) THEN SkipSpaces(text, i + 1) ELSE i

\* The position after \d+\.?\d* matched greedily from the digit at i.
NumberEnd(text, i) ==
    LET j == SkipDigits(text, i)
    IN IF j <= Len(text) /\ text[j] = "." THEN SkipDigits(text, j + 1) ELSE j

\* The integer a run of digits denotes.
RECURSIVE DigitsToInt(_)
DigitsToInt(ds) ==
    IF ds = <<>> THEN 0
    ELSE 10 * DigitsToInt(SubSeq(ds, 1, Len(ds) - 1)) + DigitValue(ds[Len(ds)])

\* The decimal m * 10^-e with its trailing fraction zeros removed.
RECURSIVE Canonical(_, _)
Canonical(m, e) ==
    IF e > 0 /\ m % 10 = 0 THEN Canonical(m \div 10, e - 1) ELSE Num(m, e)

\* float(group) of a group matched by -?\d+\.?\d*.
float(group) ==
    LET neg == group[1] = "-"
        num == IF neg THEN Tail(group) ELSE group
        j == SkipDigits(num, 1)
        frac == IF j <= Len(num) THEN SubSeq(num, j + 1, Len(num)) ELSE <<>>
        mag == DigitsToInt(SubSeq(num, 1, j - 1)) * Pow10(Len(frac)) + DigitsToInt(frac)
    IN Canonical(IF neg THEN 0 - mag ELSE mag, Len(frac))

\* The least element of a non-empty set of positions: re.search takes the
\* leftmost match.
Leftmost(S) == CHOOSE i \in S : \A j \in S : i <= j

\* Variant: the pattern has no sign.
ExtractTemperatureUnsigned(text) ==
    LET starts == {i \in 1..Len(text) : IsDigit(text[i])}
    IN IF starts = {} THEN NoneVal
       ELSE LET i == Leftmost(starts)
            IN float(SubSeq(text, i, NumberEnd(text, i) - 1))

\* _extract_temperature: (-?\d+\.?\d*)\s*°?C? -- everything after the group
\* is optional, so the leftmost digit, or "-" before a digit, starts the match.
extract_temperature(text) ==
    LET starts == {i \in 1..Len(text) :
                      \/ IsDigit(text[i])
                      \/ text[i] = "-" /\ i < Len(text) /\ IsDigit(text[i + 1])}
    IN IF starts = {} THEN NoneVal
       ELSE LET i == Leftmost(starts)
                d == IF text[i] = "-" THEN i + 1 ELSE i
            IN float(SubSeq(text, i, NumberEnd(text, d) - 1))

\* _extract_energy: (\d+\.?\d*)\s*kWh -- the leftmost digit whose number,
\* taken greedily, is followed by optional whitespace and kWh (giving back
\* digits or the point never helps: what follows them is not kWh).
extract_energy(text) ==
    LET starts == {i \in 1..Len(text) :
                      /\ IsDigit(text[i])
                      /\ LET k == SkipSpaces(text, NumberEnd(text, i))
                         IN /\ k + 2 <= Len(text)
                            /\ SubSeq(text, k, k + 2) = <<"k", "W", "h">>}
    IN IF starts = {} THEN NoneVal
       ELSE LET i == Leftmost(starts)
            IN float(SubSeq(text, i, NumberEnd(text, i) - 1))

\* _extract_float: (\d+\.?\d*).
extract_float(text) ==
    LET starts == {i \in 1..Len(text) : IsDigit(text[i])}
    IN IF starts = {} THEN NoneVal
       ELSE LET i == Leftmost(starts)
            IN float(SubSeq(text, i, NumberEnd(text, i) - 1))

\* get_text(strip=True) of an element with one text node.
RECURSIVE get_text(_)
get_text(text) ==
    IF text = <<>> THEN text
    ELSE IF IsSpace(Head(text)) THEN get_text(Tail(text))
    ELSE IF IsSpace(text[Len(text)]) THEN get_text(SubSeq(text, 1, Len(text) - 1))
    ELSE text

-----------------------------------------------------------------------------
(* _parse_html_data.  A markup fragment is what BeautifulSoup finds in it,  *)
(* in document order: the div.pointer elements with data-type and text, and *)
(* per class the div.element elements (soup.find takes the first).          *)

Markup(ps, el) ==
    [pointers |-> ps,
     operation_mode |-> el.operation_mode,      \* texts
     heating_mode |-> el.heating_mode,          \* title attributes
     dgs |-> el.dgs,                            \* span lists: text and "on" class
     inside_temp |-> el.inside_temp,            \* texts
     inside_configured_temp |-> el.inside_configured_temp]

\* The key a pointer's data-type is stored under, None for any other type.
pointer_key(data_type) ==
    CASE data_type = "aanvoer-1" -> "supply_temperature_1"
      [] data_type = "aanvoer-2" -> "supply_temperature_2"
      [] data_type = "bron-1" -> "source_temperature_1"
      [] data_type = "bron-2" -> "source_temperature_2"
      [] data_type = "buitentemp" -> "outdoor_temperature"
      [] data_type = "binnen temp." -> "inside_temperature"
      [] data_type = "ingestelde binnen temp. " -> "inside_configured_temperature"
      [] data_type = "W.W. temperatuur." -> "hot_water_temperature"
      [] data_type = "W.W. temperatuur. ingesteld" -> "hot_water_configured_temperature"
      [] data_type = "Opgenomen vermogen" -> "power_consumption"
      [] data_type = "Geleverde energie" -> "energy_delivered"
      [] data_type = "SPF" -> "cop"
      [] OTHER -> None

\* The value a pointer stores: what the extractor of its class returns,
\* None included.
pointer_value(data_type, text) ==
    IF data_type \in {"Opgenomen vermogen", "Geleverde energie"}
    THEN extract_energy(get_text(text))
    ELSE IF data_type = "SPF" THEN extract_float(get_text(text))
    ELSE extract_temperature(get_text(text))

\* data[key] = value.
Assign(d, k, v) == [x \in DOMAIN d \cup {k} |-> IF x = k THEN v ELSE d[x]]

EmptyDict == [x \in {} |-> NoneVal]

\* data after the loop over the pointers: a later pointer overwrites.
RECURSIVE pointer_data(_)
pointer_data(ps) ==
    IF ps = <<>> THEN EmptyDict
    ELSE LET d == pointer_data(SubSeq(ps, 1, Len(ps) - 1))
             p == ps[Len(ps)]
         IN IF pointer_key(p.data_type) = None THEN d
            ELSE Assign(d, pointer_key(p.data_type), pointer_value(p.data_type, p.text))

\* data after the loop over the spans of the dgs element.
RECURSIVE span_data(_, _)
span_data(d, spans) ==
    IF spans = <<>> THEN d
    ELSE LET b == span_data(d, SubSeq(spans, 1, Len(spans) - 1))
             span == spans[Len(spans)]
             status == Str(IF span.on THEN <<"O", "N">> ELSE <<"O", "F", "F">>)
         IN IF get_text(span.text) = <<"d", "h", "w">> THEN Assign(b, "dhw_status", status)
            ELSE IF get_text(span.text) = <<"d", "g", "1">> THEN Assign(b, "dg1_status", status)
            ELSE b

\* `if elem and key not in data`: the fallback element for key.
fallback(d, k, elems) ==
    IF elems # <<>> /\ k \notin DOMAIN d
    THEN Assign(d, k, extract_temperature(get_text(elems[1])))
    ELSE d

parse_html_data(html) ==
    LET d1 == pointer_data(html.pointers)
        d2 == IF html.operation_mode # <<>>
              THEN Assign(d1, "operation_mode", Str(get_text(html.operation_mode[1])))
              ELSE d1
        d3 == IF html.heating_mode # <<>>
              THEN Assign(d2, "heating_mode_status", Str(get_text(html.heating_mode[1])))
              ELSE d2
        d4 == IF html.dgs # <<>> THEN span_data(d3, html.dgs[1]) ELSE d3
        d5 == fallback(d4, "inside_temperature", html.inside_temp)
    IN fallback(d5, "inside_configured_temperature", html.inside_configured_temp)

-----------------------------------------------------------------------------
(* _normalize_data.                                                        *)

temp_sensors ==
    {"supply_temperature_1", "supply_temperature_2",
     "source_temperature_1", "source_temperature_2",
     "outdoor_temperature", "inside_temperature",
     "inside_configured_temperature", "hot_water_temperature",
     "hot_water_configured_temperature"}

energy_sensors == {"power_consumption", "energy_delivered"}

status_keys == {"operation_mode", "heating_mode_status", "dhw_status", "dg1_status"}

\* The keys of SENSOR_TYPES (const.py), the sensors the integration creates.
SENSOR_TYPES ==
    {"supply_temperature_1", "supply_temperature_2", "source_temperature_1",
     "source_temperature_2", "outdoor_temperature", "inside_temperature",
     "inside_configured_temperature", "hot_water_temperature",
     "hot_water_configured_temperature", "power_consumption", "energy_delivered",
     "cop", "operation_mode", "heating_mode_status", "dhw_status", "dg1_status"}

temperature_range == [lo |-> -50, hi |-> 100]

\* Variant: the energy sensors are checked against the temperature range.
EnergyRangeAsTemperature == [lo |-> -50, hi |-> 100]

energy_range == [lo |-> 0, hi |-> 100000]

cop_range == [lo |-> 0, hi |-> 20]

\* value is not None and isinstance(value, (int, float)); bool is an int.
is_number(v) == v.t \in {"num", "bool"}

\* Variant: the bounds of the range are excluded.
InRangeExclusive(v, r) ==
    r.lo * Pow10(v.e) < v.m /\ v.m < r.hi * Pow10(v.e)

\* lo <= value <= hi.
in_range(v, r) ==
    r.lo * Pow10(v.e) <= v.m /\ v.m <= r.hi * Pow10(v.e)

\* Variant: every key with a value is passed on.
EveryPresentKey(raw_data) == {k \in DOMAIN raw_data : raw_data[k].t # "none"}

\* The keys _normalize_data assigns.
normalized_keys(raw_data) ==
    {k \in temp_sensors :
        is_number(Get(raw_data, k)) /\ in_range(Get(raw_data, k), temperature_range)}
    \cup {k \in energy_sensors :
        is_number(Get(raw_data, k)) /\ in_range(Get(raw_data, k), energy_range)}
    \cup {k \in {"cop"} :
        is_number(Get(raw_data, k)) /\ in_range(Get(raw_data, k), cop_range)}
    \cup {k \in status_keys : Get(raw_data, k).t # "none"}

normalize_data(raw_data) ==
    [k \in normalized_keys(raw_data) |->
        IF k \in status_keys THEN py_str(raw_data[k]) ELSE raw_data[k]]

-----------------------------------------------------------------------------
(* get_heat_pump_data(): pure parts.                                       *)

login_page_indicators == {"login", "sign in", "password", "username"}

error_page_indicators ==
    {"error", "access denied", "forbidden", "not found", "klant", "customer"}

\* What the content-type branches raise inside the inner try block, NoExc
\* when html_content was obtained.
content_raise(r) ==
    IF r.ctype = "application/json"
    THEN IF r.body.json = "invalid"
         THEN Exc("JSONDecodeError", <<"Expecting value">>)
         ELSE NoExc
    ELSE IF r.ctype = "text/html"
    THEN IF r.body.words \cap login_page_indicators # {}
         THEN EpluconConnectionError(
                  <<"Session expired - received login page instead of data">>)
         ELSE IF r.body.words \cap error_page_indicators # {}
         THEN EpluconConnectionError(
                  <<"Data request failed: ",
                    IF r.body.title # None THEN r.body.title ELSE "Unknown error",
                    " - account_module_index may be incorrect">>)
         ELSE NoExc
    ELSE EpluconConnectionError(<<"Unexpected content type: ", r.ctype>>)

\* html_content after the content-type branches.
html_content_of(r) ==
    IF r.ctype = "application/json"
    THEN IF r.body.html = None THEN "" ELSE r.body.html
    ELSE r.body.text

\* The markup a named fragment of the portal stands for: "frag2" shows an
\* outdoor temperature and a supply temperature out of range, every other
\* fragment a supply temperature and no outdoor temperature.
fragment_markup(content) ==
    IF content = "frag2"
    THEN Markup(<<[data_type |-> "aanvoer-1", text |-> <<"1", "5", "0", ".", "5">>],
                  [data_type |-> "buitentemp", text |-> <<"-", "5", "°", "C">>]>>,
                [operation_mode |-> <<<<"H", "e", "a", "t", "i", "n", "g">>>>,
                 heating_mode |-> <<>>, dgs |-> <<>>, inside_temp |-> <<>>,
                 inside_configured_temp |-> <<>>])
    ELSE
    Markup(<<[data_type |-> "aanvoer-1", text |-> <<"4", "5", ".", "3", " ", "°", "C">>],
             [data_type |-> "Opgenomen vermogen", text |-> <<"1", "2", " ", "k", "W", "h">>],
             [data_type |-> "buitentemp", text |-> <<"-", "-">>]>>,
           [operation_mode |-> <<<<"H", "e", "a", "t", "i", "n", "g">>>>, heating_mode |-> <<>>,
            dgs |-> <<>>, inside_temp |-> <<>>, inside_configured_temp |-> <<>>])

\* Contents get_heat_pump_data() may hand to the conversion.
Contents == Fragments \cup {""}

\* data = self._parse_html_data(html_content);
\* normalized_data = self._normalize_data(data), for each content.
content_readings ==
    [c \in Contents |-> normalize_data(parse_html_data(fragment_markup(c)))]

\* The reading get_heat_pump_data() returns for html_content.
readings_of(content) == content_readings[content]

\* What reading the body of a response gives once its `async with` block
\* was left (aiohttp has released it): the library raises "Connection
\* closed", or hands out a body it had already received.
ReleasedReads == {"closed", "body"}

\* except Exception as e (inner try block of get_heat_pump_data).
ParseExcept(e) ==
    IF Includes(e, "Invalid JSON response") THEN e
    ELSE EpluconConnectionError(<<"Failed to parse response: ">> \o e.msg)

\* Variant: empty content is handed on to the extraction.
EmptyContentAccepted(r) == NoExc

\* `if not html_content:` logs json_data before raising; json_data is bound
\* only on the application/json branch.
no_content_raise(r) ==
    IF r.ctype = "application/json"
    THEN EpluconConnectionError(<<"No HTML content found in response">>)
    ELSE Exc("UnboundLocalError", <<"json_data">>)

\* What handling a 200 data response raises, NoExc when readings are returned.
parse_raise(r) ==
    IF content_raise(r) # NoExc THEN ParseExcept(content_raise(r))
    ELSE IF ~Truthy(html_content_of(r)) THEN no_content_raise(r)
    ELSE NoExc

\* The except clauses that close get_heat_pump_data()'s try block.
FetchExcept(e) ==
    IF e.kind = "ClientError"
    THEN EpluconConnectionError(<<"Connection error while fetching data: ">> \o e.msg)
    ELSE e

\* What the first data response raises when it is not a 401/403.
data_raise(r) ==
    IF r.fault # "none" THEN Fault(r.fault)
    ELSE IF r.status # 200 THEN EpluconConnectionError(<<"Failed to fetch data">>)
    ELSE parse_raise(r)

\* Variant: the retried response is handled without looking at its status.
RetryStatusUnchecked(r, released) ==
    IF r.fault # "none" THEN Fault(r.fault)
    ELSE IF released = "closed" THEN Exc("ClientError", <<"Connection closed">>)
    ELSE parse_raise(r)

\* What the retried data response raises.  Its status is checked inside its
\* `async with` block; the body is read after the block was left, as
\* `response = retry_response`.  When that read fails, so does the
\* response.text() of the inner except clause, and the ClientError leaves
\* the clause.
retry_raise(r, released) ==
    IF r.fault # "none" THEN Fault(r.fault)
    ELSE IF r.status # 200
    THEN EpluconConnectionError(<<"Failed to fetch data after re-auth">>)
    ELSE IF released = "closed" THEN Exc("ClientError", <<"Connection closed">>)
    ELSE parse_raise(r)

\* The first data response is taken as a session expiry.
is_expired_status(r) == r.fault = "none" /\ (r.status = 401 \/ r.status = 403)

-----------------------------------------------------------------------------
(* Control transfers shared by the actions.                                *)

\* A call that needs a session can be modelled while the bound allows one.
CanOpen == session # 0 \/ created < MaxSessions

\* Variant: the block of the login page response is kept entered as well.
LoginPageKeptOpen(r) ==
    \/ r.req = "login_get" /\ r.fault = "none"
    \/ r.req = "login_post" /\ login_success(r)
    \/ r.req = "data_get" /\ is_expired_status(r)

\* The response's `async with` block is still entered when the next request
\* is issued: the discovery runs inside the block of the login POST, the
\* re-login and the retry inside the block of the 401/403 data response.
stays_open(r) ==
    \/ r.req = "login_post" /\ login_success(r)
    \/ r.req = "data_get" /\ is_expired_status(r)

\* The entered blocks once the response r has been handled up to the next
\* request.
ctx_after(r, o) == IF stays_open(r) THEN o \cup {r.req} ELSE o

\* Enter login() from call site s: _ensure_session, then the login page GET.
EnterLogin(s, h) ==
    LET es == ensure_session(session, created)
    IN /\ session' = es.session
       /\ created' = es.created
       /\ live' = live \cup {es.session}
       /\ site' = s
       /\ pc' = "login_get"
       /\ hist' = [h EXCEPT !.login = @ + 1,
                            !.login_get = @ + 1,
                            !.relogin = IF s = "relogin" THEN @ + 1 ELSE @,
                            !.login_session = es.session,
                            !.used = @ \cup {es.session}]

\* _ensure_session, then the data GET with the identifier as parameter.
IssueData(h) ==
    LET es == ensure_session(session, created)
    IN /\ session' = es.session
       /\ created' = es.created
       /\ live' = live \cup {es.session}
       /\ site' = "none"
       /\ pc' = "data_get"
       /\ hist' = [h EXCEPT !.data_get = @ + 1,
                            !.data_session = es.session,
                            !.used = @ \cup {es.session}]

\* Variant: the data request is issued without looking at the identifier.
IndexNotChecked(h) ==
    /\ is_authenticated' = is_authenticated
    /\ IssueData(h)

\* `if not self._account_module_index:` after the first login: second
\* strike, else the data request.
CheckIndex(h) ==
    IF ~Truthy(account_module_index)
    THEN /\ is_authenticated' = FALSE
         /\ EnterLogin("strike2", h)
    ELSE /\ is_authenticated' = is_authenticated
         /\ IssueData(h)

\* The entry point returns or raises to the host; every block is left.
Finish(how, e, v) ==
    /\ pc' = "idle"
    /\ op' = "none"
    /\ site' = "none"
    /\ open_ctx' = {}
    /\ outcome' = [op |-> op, how |-> how, exc |-> e, value |-> v]

\* login() is called on the idle client.
CallLogin ==
    /\ pc = "idle"
    /\ CanOpen
    /\ op' = "login"
    /\ response' = NoResponse
    /\ exc' = NoExc
    /\ EnterLogin("direct", [NoHist EXCEPT !.started_auth = is_authenticated])
    /\ UNCHANGED <<is_authenticated, account_module_index, outcome, last_closed,
                   open_ctx, reading, portal>>

\* get_heat_pump_data() is called on the idle client.
CallFetch ==
    /\ pc = "idle"
    /\ CanOpen
    /\ op' = "fetch"
    /\ response' = NoResponse
    /\ exc' = NoExc
    /\ LET h == [NoHist EXCEPT !.started_auth = is_authenticated]
       IN IF ~is_authenticated
          THEN /\ EnterLogin("first", h)
               /\ is_authenticated' = is_authenticated
          ELSE CheckIndex(h)
    /\ UNCHANGED <<account_module_index, outcome, last_closed, open_ctx, reading,
                   portal>>

-----------------------------------------------------------------------------
(* Actions.                                                                *)

\* The host calls login().
StartLogin ==
    /\ flow = "none"
    /\ coordinator = NoRefresh
    /\ CallLogin
    /\ UNCHANGED <<flow, coordinator>>

\* The host calls get_heat_pump_data().
StartFetch ==
    /\ flow = "none"
    /\ coordinator = NoRefresh
    /\ CallFetch
    /\ UNCHANGED <<flow, coordinator>>

\* login(): the login page GET is answered.
LoginPageResponse ==
    /\ pc = "login_get"
    /\ \E r \in Served(LoginPageResponses) :
         /\ response' = r
         /\ portal' = portal_after(r)
         /\ open_ctx' = ctx_after(r, open_ctx)
         /\ IF login_page_step(r) # NoExc
            THEN /\ pc' = "login_raised"
                 /\ exc' = LoginExcept(login_page_step(r))
                 /\ hist' = hist
            ELSE /\ pc' = "login_post"
                 /\ exc' = exc
                 /\ hist' = [hist EXCEPT !.login_post = @ + 1,
                                         !.used = @ \cup {hist.login_session}]
    /\ UNCHANGED <<session, created, is_authenticated, account_module_index,
                   op, site, outcome, last_closed, live, flow, reading,
                   coordinator>>

\* login(): the credential POST is answered.
LoginPostResponse ==
    /\ pc = "login_post"
    /\ \E r \in Served(LoginPostResponses) :
         /\ response' = r
         /\ portal' = portal_after(r)
         /\ open_ctx' = ctx_after(r, open_ctx)
         /\ is_authenticated' = authenticated_after_post(r, is_authenticated)
         /\ IF login_success(r)
            THEN /\ pc' = "heatpump_get"
                 /\ exc' = exc
                 /\ hist' = [hist EXCEPT !.heatpump_get = @ + 1,
                                         !.used = @ \cup {hist.login_session}]
            ELSE /\ pc' = "login_raised"
                 /\ exc' = LoginExcept(login_post_raise(r))
                 /\ hist' = hist
    /\ UNCHANGED <<session, created, account_module_index, op, site, outcome,
                   last_closed, live, flow, reading,
                   coordinator>>

\* login(): the heatpump page GET of identifier discovery is answered, and
\* login() returns True, leaving the block of the POST response.
HeatpumpResponse ==
    /\ pc = "heatpump_get"
    /\ \E r \in Served(HeatpumpResponses) :
         /\ response' = r
         /\ portal' = portal_after(r)
         /\ open_ctx' = ctx_after(r, open_ctx) \ {"login_post"}
         /\ IF DiscoveryExcept(discovery_raise(r)) # NoExc
            THEN /\ pc' = "login_raised"
                 /\ exc' = LoginExcept(DiscoveryExcept(discovery_raise(r)))
                 /\ UNCHANGED <<account_module_index, hist>>
            ELSE /\ pc' = "login_returned"
                 /\ exc' = exc
                 /\ account_module_index' = find_module_index(r, account_module_index)
                 /\ hist' = [hist EXCEPT
                       !.disc_none = IF DiscoveryFoundNothing(r) THEN @ + 1 ELSE @]
    /\ UNCHANGED <<session, created, is_authenticated, op, site, outcome,
                   last_closed, live, flow, reading,
                   coordinator>>

\* login() called by the host returns.
LoginReturnsToHost ==
    /\ pc = "login_returned"
    /\ site = "direct"
    /\ Finish("returned", NoExc, "True")
    /\ UNCHANGED <<session, created, is_authenticated, account_module_index,
                   response, exc, hist, last_closed, live, flow, reading,
                   coordinator, portal>>

\* The first login() of get_heat_pump_data returns.
LoginReturnsFirst ==
    /\ pc = "login_returned"
    /\ site = "first"
    /\ CheckIndex(hist)
    /\ UNCHANGED <<account_module_index, op, response, exc, outcome, last_closed,
                   open_ctx, flow, reading,
                   coordinator, portal>>

\* The second-strike login() of get_heat_pump_data returns.
LoginReturnsSecond ==
    /\ pc = "login_returned"
    /\ site = "strike2"
    /\ IF ~Truthy(account_module_index)
       THEN /\ Finish("raised",
                      EpluconConnectionError(
                          <<"Could not obtain account module index needed for data access">>),
                      None)
            /\ UNCHANGED <<session, created, hist, live>>
       ELSE /\ IssueData(hist)
            /\ UNCHANGED <<op, outcome, open_ctx>>
    /\ UNCHANGED <<is_authenticated, account_module_index, response, exc,
                   last_closed, flow, reading,
                   coordinator, portal>>

\* Variant: after the re-login the data request is issued as a first
\* request again, whose 401/403 leads to another re-login.
RetryAsFirstRequest ==
    /\ pc = "login_returned"
    /\ site = "relogin"
    /\ pc' = "data_get"
    /\ site' = "none"
    /\ hist' = [hist EXCEPT !.data_get = @ + 1,
                            !.used = @ \cup {hist.data_session}]
    /\ UNCHANGED <<session, created, is_authenticated, account_module_index,
                   op, response, exc, outcome, last_closed, live, open_ctx,
                   flow, reading, coordinator, portal>>

\* The re-login after a 401/403 returns: the data request is retried on the
\* session get_heat_pump_data() holds.
LoginReturnsRetry ==
    /\ pc = "login_returned"
    /\ site = "relogin"
    /\ pc' = "retry_get"
    /\ site' = "none"
    /\ hist' = [hist EXCEPT !.retry_get = @ + 1,
                            !.used = @ \cup {hist.data_session}]
    /\ UNCHANGED <<session, created, is_authenticated, account_module_index,
                   op, response, exc, outcome, last_closed, live, open_ctx,
                   flow, reading,
                   coordinator, portal>>

\* login() raises: to the host, or through get_heat_pump_data (inside its
\* try block when it is the re-login).
LoginRaises ==
    /\ pc = "login_raised"
    /\ Finish("raised", IF site = "relogin" THEN FetchExcept(exc) ELSE exc, None)
    /\ UNCHANGED <<session, created, is_authenticated, account_module_index,
                   response, exc, hist, last_closed, live, flow, reading,
                   coordinator, portal>>

\* get_heat_pump_data(): the data GET is answered.
DataResponse ==
    /\ pc = "data_get"
    /\ \E r \in Served(DataResponsesFor("data_get")) :
         /\ response' = r
         /\ portal' = portal_after(r)
         /\ LET h == [hist EXCEPT !.first_status = r.status]
            IN IF is_expired_status(r)
               THEN /\ is_authenticated' = FALSE
                    /\ open_ctx' = ctx_after(r, open_ctx)
                    /\ EnterLogin("relogin", h)
                    /\ UNCHANGED <<op, outcome>>
               ELSE /\ is_authenticated' = is_authenticated
                    /\ IF data_raise(r) # NoExc
                       THEN /\ Finish("raised", FetchExcept(data_raise(r)), None)
                            /\ hist' = h
                       ELSE /\ Finish("returned", NoExc,
                                      readings_of(html_content_of(r)))
                            /\ hist' = [h EXCEPT !.extracted = @ + 1,
                                                 !.normalized = @ + 1]
                    /\ UNCHANGED <<session, created, live>>
    /\ UNCHANGED <<account_module_index, exc, last_closed, flow, reading,
                   coordinator>>

\* get_heat_pump_data(): the retried data GET is answered.
RetryResponse ==
    /\ pc = "retry_get"
    /\ \E r \in Served(DataResponsesFor("retry_get")), released \in ReleasedReads :
         /\ response' = r
         /\ portal' = portal_after(r)
         /\ IF retry_raise(r, released) # NoExc
            THEN /\ Finish("raised", FetchExcept(retry_raise(r, released)), None)
                 /\ hist' = hist
            ELSE /\ Finish("returned", NoExc, readings_of(html_content_of(r)))
                 /\ hist' = [hist EXCEPT !.extracted = @ + 1,
                                         !.normalized = @ + 1]
    /\ UNCHANGED <<session, created, is_authenticated, account_module_index,
                   exc, last_closed, live, flow, reading,
                   coordinator>>

\* Variant: close() releases the session and keeps the two fields.
CloseKeepsFields ==
    /\ pc = "idle"
    /\ session' = 0
    /\ last_closed' = IF session # 0 THEN session ELSE last_closed
    /\ response' = NoResponse
    /\ exc' = NoExc
    /\ hist' = NoHist
    /\ outcome' = [op |-> "close", how |-> "returned", exc |-> NoExc, value |-> None]
    /\ live' = live \ {session}
    /\ flow = "none"
    /\ coordinator = NoRefresh
    /\ UNCHANGED <<is_authenticated, account_module_index, created, op, site, pc,
                   open_ctx, flow, reading,
                   coordinator, portal>>

\* The host calls close().
Close ==
    /\ pc = "idle"
    /\ session' = 0
    /\ last_closed' = IF session # 0 THEN session ELSE last_closed
    /\ is_authenticated' = FALSE
    /\ account_module_index' = None
    /\ response' = NoResponse
    /\ exc' = NoExc
    /\ hist' = NoHist
    /\ outcome' = [op |-> "close", how |-> "returned", exc |-> NoExc, value |-> None]
    /\ live' = live \ {session}
    /\ flow = "none"
    /\ coordinator = NoRefresh
    /\ UNCHANGED <<created, op, site, pc, open_ctx, flow, reading,
                   coordinator, portal>>

-----------------------------------------------------------------------------
(* config_flow: validate_input on a client of its own, and the form.       *)

\* The exception validate_input raises for an exception of the client.
validate_except(e) ==
    IF e.kind = "EpluconAuthError" THEN "InvalidAuth"
    ELSE IF e.kind = "EpluconConnectionError" THEN "CannotConnect"
    ELSE "CannotConnect"

\* errors["base"] of async_step_user for what validate_input raises.
step_user_errors(x) ==
    IF x = "CannotConnect" THEN "cannot_connect"
    ELSE IF x = "InvalidAuth" THEN "invalid_auth"
    ELSE "unknown"

FlowResults == {"cannot_connect", "invalid_auth", "unknown", "create_entry"}

\* async_step_user with user input: validate_input constructs its client
\* and calls login().
ValidateInput ==
    /\ flow = "none"
    /\ outcome = NoOutcome
    /\ flow' = "login"
    /\ CallLogin
    /\ UNCHANGED coordinator

\* validate_input: login() has ended; its exception ends the flow with the
\* form showing the error, its return is followed by get_heat_pump_data().
ValidateLoginEnded ==
    /\ flow = "login"
    /\ pc = "idle"
    /\ IF outcome.how = "raised"
       THEN /\ flow' = step_user_errors(validate_except(outcome.exc))
            /\ UNCHANGED <<session, created, is_authenticated, account_module_index,
                           op, site, pc, response, exc, outcome, hist, last_closed,
                           live, open_ctx, reading, portal>>
       ELSE /\ flow' = "fetch"
            /\ CallFetch
    /\ UNCHANGED coordinator

\* validate_input: get_heat_pump_data() has ended; its exception ends the
\* flow with the form showing the error, its return creates the entry.
ValidateFetchEnded ==
    /\ flow = "fetch"
    /\ pc = "idle"
    /\ flow' = IF outcome.how = "raised"
               THEN step_user_errors(validate_except(outcome.exc))
               ELSE "create_entry"
    /\ UNCHANGED <<session, created, is_authenticated, account_module_index,
                   op, site, pc, response, exc, outcome, hist, last_closed,
                   live, open_ctx, reading, coordinator, portal>>

-----------------------------------------------------------------------------
(* EpluconDataUpdateCoordinator._async_update_data: one refresh cycle.     *)

\* Variant: only the client's own connection error is converted.
UpdateExceptOwnErrorsOnly(e) ==
    IF e.kind = "EpluconConnectionError" THEN "UpdateFailed" ELSE e.kind

\* except Exception as exception: raise UpdateFailed(...)
update_except(e) == "UpdateFailed"

\* Variant: a sensor is available whenever the coordinator holds its key.
AvailableOnStaleData(coord, sensor_type) ==
    /\ ~coord.data.is_none
    /\ sensor_type \in DOMAIN coord.data.dict

\* EpluconSensor.available, read on the coordinator coord.
available(coord, sensor_type) ==
    /\ coord.last_update_success
    /\ ~coord.data.is_none
    /\ sensor_type \in DOMAIN coord.data.dict

\* The coordinator updates its listeners: each sensor writes its state.
UpdateListeners(coord) ==
    [coord EXCEPT !.sensors = {k \in SENSOR_TYPES : available(coord, k)}]

\* The cycle ends raising what the except clause makes of e: the update
\* failed and data stays what it was.
RefreshRaises(e) ==
    coordinator' = UpdateListeners(
                       [coordinator EXCEPT !.step = "idle",
                                           !.raised = update_except(e),
                                           !.on = e.kind,
                                           !.last_update_success = FALSE])

\* The scheduled refresh starts: login() when the client is not
\* authenticated, else get_heat_pump_data() at once.
RefreshStarts ==
    /\ flow = "none"
    /\ coordinator.step = "idle"
    /\ coordinator.started \/ outcome = NoOutcome
    /\ IF ~is_authenticated
       THEN /\ CallLogin
            /\ coordinator' = [coordinator EXCEPT !.step = "login",
                                                  !.started = TRUE]
       ELSE /\ CallFetch
            /\ coordinator' = [coordinator EXCEPT !.step = "fetch",
                                                  !.started = TRUE]
    /\ UNCHANGED flow

\* The cycle's login() has ended: its exception ends the cycle, its return
\* is followed by get_heat_pump_data().
RefreshLoginEnded ==
    /\ coordinator.step = "login"
    /\ pc = "idle"
    /\ IF outcome.how = "raised"
       THEN /\ RefreshRaises(outcome.exc)
            /\ UNCHANGED <<session, created, is_authenticated, account_module_index,
                           op, site, pc, response, exc, outcome, hist, last_closed,
                           live, open_ctx, reading, portal>>
       ELSE /\ CallFetch
            /\ coordinator' = [coordinator EXCEPT !.step = "fetch"]
    /\ UNCHANGED flow

\* The cycle's get_heat_pump_data() has ended: its exception ends the cycle
\* raising, its return value is the cycle's data.
RefreshFetchEnded ==
    /\ coordinator.step = "fetch"
    /\ pc = "idle"
    /\ IF outcome.how = "raised"
       THEN RefreshRaises(outcome.exc)
       ELSE coordinator' = UpdateListeners(
                               [coordinator EXCEPT !.step = "idle",
                                                   !.raised = "none",
                                                   !.on = "none",
                                                   !.last_update_success = TRUE,
                                                   !.data = Data(outcome.value)])
    /\ UNCHANGED <<session, created, is_authenticated, account_module_index,
                   op, site, pc, response, exc, outcome, hist, last_closed,
                   live, open_ctx, flow, reading, portal>>

Next ==
    \/ StartLogin
    \/ StartFetch
    \/ LoginPageResponse
    \/ LoginPostResponse
    \/ HeatpumpResponse
    \/ LoginReturnsToHost
    \/ LoginReturnsFirst
    \/ LoginReturnsSecond
    \/ LoginReturnsRetry
    \/ LoginRaises
    \/ DataResponse
    \/ RetryResponse
    \/ Close
    \/ ValidateInput
    \/ ValidateLoginEnded
    \/ ValidateFetchEnded
    \/ RefreshStarts
    \/ RefreshLoginEnded
    \/ RefreshFetchEnded

Spec == Init /\ [][Next]_vars

-----------------------------------------------------------------------------
(* The conversion of a fragment: _parse_html_data, then _normalize_data,    *)
(* as get_heat_pump_data applies them to html_content.                      *)

DataTypes ==
    {"aanvoer-1", "aanvoer-2", "bron-1", "bron-2", "buitentemp", "binnen temp.",
     "ingestelde binnen temp. ", "W.W. temperatuur.", "W.W. temperatuur. ingesteld",
     "Opgenomen vermogen", "Geleverde energie", "SPF", "druk"}

PointerTexts ==
    {<<"4", "5", ".", "3", " ", "°", "C">>, <<"-", "5", "°", "C">>, <<" ", "1", "2", " ", "k", "W", "h">>,
     <<"1", "5", "0", ".", "5">>, <<"-", "-">>, <<"0", ".", "5", "k", "W", "h">>}

\* The pointers with a data-type of T.
Pointers(T) == [data_type : T, text : PointerTexts]

\* The data-types drawn for fragments of several pointers.
RepeatedTypes == {"binnen temp.", "Opgenomen vermogen", "SPF", "druk"}

\* The data-types that have a fallback element.
FallbackTypes == {"binnen temp.", "ingestelde binnen temp. "}

\* The sequences of at most n pointers of P.
PointerSeqs(P, n) == UNION {[1..k -> P] : k \in 0..n}

NoElements ==
    [operation_mode |-> <<>>, heating_mode |-> <<>>, dgs |-> <<>>,
     inside_temp |-> <<>>, inside_configured_temp |-> <<>>]

Elements ==
    [operation_mode : {<<>>, <<<<" ", "H", "e", "a", "t", "i", "n", "g", " ">>>>},
     heating_mode : {<<>>, <<<<"A", "c", "t", "i", "v", "e", " ">>>>, << <<>> >>},
     dgs : {<<>>,
            << <<[text |-> <<"d", "h", "w">>, on |-> TRUE],
                 [text |-> <<"d", "g", "1">>, on |-> FALSE]>> >>,
            << <<[text |-> <<"d", "g", "2">>, on |-> TRUE],
                 [text |-> <<" ", "d", "h", "w">>, on |-> FALSE]>> >>},
     inside_temp : {<<>>, <<<<"2", "1", ".", "5", " ", "°", "C">>>>, <<<<"n", "/", "a">>>>},
     inside_configured_temp : {<<>>, <<<<"2", "0">>>>}]

\* Fragments of one pointer of any data-type, fragments of several
\* pointers, and fragments with the other elements around at most one
\* pointer that has a fallback element.
Markups ==
    {Markup(ps, NoElements) : ps \in PointerSeqs(Pointers(DataTypes), 1)}
    \cup {Markup(ps, NoElements) :
             ps \in PointerSeqs(Pointers(RepeatedTypes), MaxPointers)}
    \cup {Markup(ps, el) :
             ps \in PointerSeqs(Pointers(FallbackTypes), 1), el \in Elements}

RawKeys == SENSOR_TYPES \cup {"firmware"}

RawValues ==
    {NoneVal, Str(<<"O", "N">>), Bool(TRUE),
     Num(-501, 1), Num(-50, 0), Num(-1, 1), Num(0, 0), Num(453, 1), Num(20, 0),
     Num(201, 1), Num(100, 0), Num(1001, 1), Num(100000, 0), Num(1000001, 1)}

\* The readings of at most n keys.
RawReadings(n) ==
    UNION {[K -> RawValues] : K \in {S \in SUBSET RawKeys : Cardinality(S) <= n}}

client_vars ==
    <<session, created, is_authenticated, account_module_index, op, site, pc,
      response, exc, outcome, hist, last_closed, live, open_ctx, flow,
      coordinator, portal>>

\* A fragment to convert, or a reading handed to _normalize_data as it is.
ReadingInit ==
    /\ ClientInit
    /\ \/ \E h \in Markups :
             reading = [stage |-> "html", from |-> "html", html |-> h,
                        raw |-> EmptyDict, normalized |-> EmptyDict]
       \/ \E d \in RawReadings(MaxKeys) :
             reading = [stage |-> "raw", from |-> "raw",
                        html |-> Markup(<<>>, NoElements),
                        raw |-> d, normalized |-> EmptyDict]

\* data = self._parse_html_data(html_content)
ParseHtml ==
    /\ reading.stage = "html"
    /\ reading' = [reading EXCEPT !.stage = "raw",
                                  !.raw = parse_html_data(reading.html)]
    /\ UNCHANGED client_vars

\* normalized_data = self._normalize_data(data)
NormalizeData ==
    /\ reading.stage = "raw"
    /\ reading' = [reading EXCEPT !.stage = "normalized",
                                  !.normalized = normalize_data(reading.raw)]
    /\ UNCHANGED client_vars

ReadingNext ==
    \/ ParseHtml
    \/ NormalizeData

ReadingSpec == ReadingInit /\ [][ReadingNext]_vars

-----------------------------------------------------------------------------
(* The coordinator's refresh cycles against a portal whose session         *)
(* expires: the client is the coordinator's alone, one cycle follows       *)
(* another, and at some moment the session expires for good.               *)

\* The portal ends the client's session.
SessionExpires ==
    /\ portal.phase = "any"
    /\ coordinator.started
    /\ \E a \in ExpiredAnswers : portal' = [phase |-> "expired", answer |-> a]
    /\ UNCHANGED <<session, created, is_authenticated, account_module_index,
                   op, site, pc, response, exc, outcome, hist, last_closed,
                   live, open_ctx, flow, reading, coordinator>>

\* A step of the coordinator or of the client it drives.
RefreshCycleStep ==
    \/ RefreshStarts
    \/ RefreshLoginEnded
    \/ RefreshFetchEnded
    \/ LoginPageResponse
    \/ LoginPostResponse
    \/ HeatpumpResponse
    \/ LoginReturnsToHost
    \/ LoginReturnsSecond
    \/ LoginReturnsRetry
    \/ LoginRaises
    \/ DataResponse
    \/ RetryResponse

RecoveryNext ==
    \/ SessionExpires
    \/ RefreshCycleStep

\* The coordinator refreshes every update_interval and every request ends
\* within the session's ClientTimeout: a step of the cycle that can be
\* taken is taken.
RecoverySpec == Init /\ [][RecoveryNext]_vars /\ WF_vars(RefreshCycleStep)

-----------------------------------------------------------------------------
(* Properties.                                                             *)

RaisedKinds == {"EpluconAuthError", "EpluconConnectionError"}

\* get_heat_pump_data() has just returned or raised to the host.
FetchEnded == pc = "idle" /\ outcome.op = "fetch"

\* The login POST was answered 200 with a body holding no success phrase,
\* and login() has raised on it.
LoginRaisedOnNoSuccess ==
    /\ pc = "login_raised"
    /\ response.req = "login_post"
    /\ response.fault = "none"
    /\ response.status = 200
    /\ found_indicators(response.body.words) = {}

\* The login page was served without any of the token input fields, and
\* login() has raised on it.
LoginRaisedOnNoTokenField ==
    /\ pc = "login_raised"
    /\ response.req = "login_get"
    /\ response.fault = "none"
    /\ response.status = 200
    /\ \A n \in TokenFieldNames : response.body.inputs[n] = None

\* The data response last received is a 200 text/html page with login-page
\* vocabulary.
LoginPageServedAsData ==
    /\ response.req \in {"data_get", "retry_get"}
    /\ response.fault = "none"
    /\ response.status = 200
    /\ response.ctype = "text/html"
    /\ response.body.words \cap login_page_indicators # {}

\* C1: login() returns only with is_authenticated true, and whatever it
\* raises is an EpluconAuthError or an EpluconConnectionError.
C1_LoginReturnsAuthenticatedOrRaises ==
    /\ pc = "login_returned" => is_authenticated
    /\ pc = "login_raised" => exc.kind \in RaisedKinds

C1_Witness ==
    /\ pc = "login_returned"
    /\ site = "direct"
    /\ is_authenticated
    /\ hist.login_post = 1

\* C2: a 200 login response without a success phrase makes login() raise
\* EpluconAuthError, with or without an error-message element in the body.
C2_NoSuccessPhraseRaisesAuthError ==
    LoginRaisedOnNoSuccess => exc.kind = "EpluconAuthError"

\* C3: a login page without any token input field makes login() raise
\* EpluconAuthError, and this login() has sent no POST.
C3_NoTokenRaisesAuthErrorWithoutPost ==
    LoginRaisedOnNoTokenField =>
        /\ exc.kind = "EpluconAuthError"
        /\ hist.login_post = hist.login - 1

\* C4: with no success phrase and an alert-danger div with non-empty text,
\* login() raises EpluconAuthError whose message includes the div's text.
C4_AuthErrorIncludesAlertText ==
    (LoginRaisedOnNoSuccess /\ Truthy(response.body.alert)) =>
        /\ exc.kind = "EpluconAuthError"
        /\ Includes(exc, response.body.alert)

\* C5: whatever response the portal gives (any status, content type and
\* body), a get_heat_pump_data() that fails raises EpluconAuthError or
\* EpluconConnectionError.
C5_FetchRaisesOnlyTheTwoKinds ==
    (FetchEnded /\ outcome.how = "raised" /\ response.fault = "none") =>
        outcome.exc.kind \in RaisedKinds

C7_TwoStrikePolicy ==
    (FetchEnded /\ ~hist.started_auth /\ hist.login >= 1
        /\ hist.disc_none = hist.login) =>
        /\ hist.login = 2
        /\ outcome.how = "raised"
        /\ outcome.exc.kind = "EpluconConnectionError"
        /\ hist.data_get = 0

\* C8: between calls, a set _account_module_index implies is_authenticated.
C8_IdentifierImpliesAuthenticated ==
    pc = "idle" => (account_module_index # None => is_authenticated)

\* C9: when get_heat_pump_data() raises on a detected session expiry (a
\* 401/403 whose re-login failed, or a login page served as text/html data),
\* is_authenticated is false.
C9_ExpiryResetsAuthentication ==
    (FetchEnded /\ outcome.how = "raised"
        /\ \/ (hist.first_status \in {401, 403} /\ exc # NoExc)
           \/ LoginPageServedAsData) =>
        ~is_authenticated

\* C10: close() leaves no session, is_authenticated false and the identifier
\* unset; the get_heat_pump_data() that follows it has sent the login page
\* GET, the credential POST and the discovery GET, on a session created
\* after the close, before any data request of it is in flight.
C10_CloseForcesFullLogin ==
    /\ (pc = "idle" /\ outcome.op = "close") =>
        /\ session = 0
        /\ ~is_authenticated
        /\ account_module_index = None
    /\ (op = "fetch" /\ outcome.op = "close" /\ pc \in {"data_get", "retry_get"}) =>
        /\ hist.login_get >= 1
        /\ hist.login_post >= 1
        /\ hist.heatpump_get >= 1
        /\ session # 0
        /\ session > last_closed

C10_Witness ==
    /\ op = "fetch"
    /\ outcome.op = "close"
    /\ pc = "data_get"
    /\ last_closed # 0
    /\ session > last_closed

\* C11: the client holds at most one live session, the one in self.session;
\* a session is created only when none was created yet or the last one
\* created was closed; and every request of one login() or
\* get_heat_pump_data() call, the re-login and the retry included, is sent on
\* that same session.
C11_OneLiveSessionPerCall ==
    /\ Cardinality(live) <= 1
    /\ live = IF session = 0 THEN {} ELSE {session}
    /\ created \in {last_closed, last_closed + 1}
    /\ Cardinality(hist.used) <= 1
    /\ pc # "idle" => hist.used = {session}

C11_Witness ==
    /\ FetchEnded
    /\ hist.relogin = 1
    /\ hist.retry_get = 1
    /\ hist.login >= 2
    /\ hist.used = {session}
    /\ last_closed # 0
    /\ live = {last_closed + 1}

\* C12: once the credential POST is classified successful, login() goes on
\* to the discovery with is_authenticated true, and whatever the discovery
\* GET is answered (a transport fault, a non-200 status, a page without
\* token) login() returns with is_authenticated true.
C12_DiscoveryNeverFailsLogin ==
    [][/\ (pc = "login_post" /\ login_success(response')) =>
            (pc' = "heatpump_get" /\ is_authenticated')
       /\ pc = "heatpump_get" =>
            (pc' = "login_returned" /\ is_authenticated')]_vars

C12_Witness ==
    /\ pc = "login_returned"
    /\ response.req = "heatpump_get"
    /\ response.fault # "none"
    /\ is_authenticated
    /\ hist.disc_none = 1

\* C13: when login() returns after a discovery that failed or found no
\* token, _account_module_index is unset.
C13_FailedDiscoveryUnsetsIdentifier ==
    (pc = "login_returned" /\ DiscoveryFoundNothing(response)) =>
        account_module_index = None

\* The pcs at which a request is awaiting its response.
RequestInFlight ==
    pc \in {"login_get", "login_post", "heatpump_get", "data_get", "retry_get"}

\* The block of the 401/403 data response, entered during the re-login.
OuterBlock == IF site = "relogin" THEN {"data_get"} ELSE {}

\* C14 as stated: while a request is in flight no response of an earlier
\* request is still open.
C14_NoRequestWhileResponseOpen ==
    RequestInFlight => open_ctx = {}

\* C14, amended: one request is in flight at a time, and the responses still
\* open when it is issued are exactly these: none for the login page GET,
\* the credential POST and the first data GET of a call; the successful POST
\* response for the discovery GET; and, after a 401/403, the data response
\* for every request of the re-login and for the retry.
C14_OpenResponsesWhenIssuing ==
    /\ pc \in {"login_get", "login_post"} => open_ctx = OuterBlock
    /\ pc = "heatpump_get" => open_ctx = OuterBlock \cup {"login_post"}
    /\ pc = "data_get" => open_ctx = {}
    /\ pc = "retry_get" => open_ctx = {"data_get"}
    /\ pc = "idle" => open_ctx = {}

C14_Witness ==
    /\ pc = "heatpump_get"
    /\ site = "relogin"
    /\ open_ctx = {"login_post", "data_get"}

\* C15: a 200 text/html data response with login-page vocabulary makes
\* get_heat_pump_data() raise the EpluconConnectionError that signals the
\* session expiry, not the generic "Failed to parse response" error, and
\* return no readings.
C15_LoginPageRaisesSessionExpiry ==
    (FetchEnded /\ LoginPageServedAsData) =>
        /\ outcome.how = "raised"
        /\ outcome.value = None
        /\ outcome.exc.kind = "EpluconConnectionError"
        /\ Includes(outcome.exc,
                    "Session expired - received login page instead of data")
        /\ ~Includes(outcome.exc, "Failed to parse response: ")

\* A reading has been normalized.
Normalized == reading.stage = "normalized"

\* The value is a number (bool included, as for isinstance) with
\* lo <= value <= hi.
NumberWithin(v, lo, hi) ==
    /\ v.t \in {"num", "bool"}
    /\ lo * Pow10(v.e) <= v.m
    /\ v.m <= hi * Pow10(v.e)

\* C16: for every temperature key, the normalized reading has the key
\* exactly when the raw reading has it with a number in [-50, 100], bounds
\* included, and then with the raw value unchanged.
C16_TemperatureKeptExactlyInRange ==
    Normalized =>
        \A k \in temp_sensors :
            /\ k \in DOMAIN reading.normalized <=>
                   (k \in DOMAIN reading.raw /\ NumberWithin(reading.raw[k], -50, 100))
            /\ k \in DOMAIN reading.normalized =>
                   reading.normalized[k] = reading.raw[k]

C16_Witness ==
    /\ Normalized
    /\ \E k \in temp_sensors :
         /\ k \in DOMAIN reading.raw
         /\ reading.raw[k] = Num(100, 0)
         /\ reading.normalized = reading.raw

\* C17: for power_consumption and energy_delivered, the normalized reading
\* has the key exactly when the raw reading has it with a number in
\* [0, 100000], 0 and 100000 included, and then with the raw value unchanged.
C17_EnergyKeptExactlyInRange ==
    Normalized =>
        \A k \in {"power_consumption", "energy_delivered"} :
            /\ k \in DOMAIN reading.normalized <=>
                   (k \in DOMAIN reading.raw /\ NumberWithin(reading.raw[k], 0, 100000))
            /\ k \in DOMAIN reading.normalized =>
                   reading.normalized[k] = reading.raw[k]

C17_Witness ==
    /\ Normalized
    /\ "energy_delivered" \in DOMAIN reading.raw
    /\ reading.raw["energy_delivered"] = Num(100000, 0)
    /\ "energy_delivered" \in DOMAIN reading.normalized

\* C18: the keys of a normalized reading are keys of SENSOR_TYPES and keys
\* of the raw reading; a key outside SENSOR_TYPES is never passed on.
C18_NormalizedKeysAreKnownInputKeys ==
    Normalized =>
        /\ DOMAIN reading.normalized \subseteq SENSOR_TYPES
        /\ DOMAIN reading.normalized \subseteq DOMAIN reading.raw

C18_Witness ==
    /\ Normalized
    /\ "firmware" \in DOMAIN reading.raw
    /\ reading.raw["firmware"] = Num(453, 1)
    /\ reading.normalized = EmptyDict

\* C19: a raw reading extracted from a fragment has no key whose value is
\* None: a pointer whose text does not parse leaves its key absent.
C19_UnparsedPointerLeavesNoEntry ==
    (reading.stage \in {"raw", "normalized"} /\ reading.from = "html") =>
        \A k \in DOMAIN reading.raw : reading.raw[k] # NoneVal

\* The flow's validation ended on a login() that raised because the portal
\* answered the credential POST 200 without a success phrase, or served a
\* login page from which no token could be taken.
ValidationRejected ==
    /\ flow \in FlowResults
    /\ outcome.op = "login"
    /\ outcome.how = "raised"
    /\ response.fault = "none"
    /\ response.status = 200
    /\ \/ response.req = "login_post" /\ found_indicators(response.body.words) = {}
       \/ response.req = "login_get" /\ ~Truthy(csrf_token(response.body.inputs))

\* C20: when the portal rejects the credentials, or no token can be taken
\* from the login page, during validate_input, the form shows invalid_auth.
C20_RejectedCredentialsShowInvalidAuth ==
    ValidationRejected => flow = "invalid_auth"

\* C21: a refresh cycle that ended has raised nothing or UpdateFailed, and
\* UpdateFailed whatever kind of exception login() or get_heat_pump_data()
\* raised in it; after it the coordinator and the client are idle, so the
\* next cycle can start.
C21_RefreshRaisesOnlyUpdateFailed ==
    (coordinator.started /\ coordinator.step = "idle") =>
        /\ coordinator.raised \in {"none", "UpdateFailed"}
        /\ coordinator.on # "none" => coordinator.raised = "UpdateFailed"
        /\ outcome.how = "raised" <=> coordinator.raised = "UpdateFailed"
        /\ pc = "idle" /\ flow = "none" /\ CanOpen

C21_Witness ==
    /\ coordinator.step = "fetch"
    /\ pc = "data_get"
    /\ coordinator.raised = "UpdateFailed"
    /\ coordinator.on = "UnboundLocalError"

\* C22: during and after a get_heat_pump_data() call, the call has invoked
\* login() at most three times and issued at most two data GETs (the first
\* and the retry), so at most eleven requests; the call that ended went
\* through no more.
C22_FetchBoundedRequests ==
    (op = "fetch" \/ FetchEnded) =>
        /\ hist.login <= 3
        /\ hist.relogin <= 1
        /\ hist.data_get <= 1
        /\ hist.retry_get <= 1
        /\ hist.login_get = hist.login
        /\ hist.login_post <= hist.login
        /\ hist.heatpump_get <= hist.login

C22_Witness ==
    /\ FetchEnded
    /\ hist.login = 3
    /\ hist.data_get = 1
    /\ hist.retry_get = 1
    /\ hist.heatpump_get = 3

\* C23: is_authenticated goes from false to true only in the step of
\* login() that handles the answer to the credential POST, and only when
\* that answer is a 200 whose body holds a success phrase; handling a body
\* without success phrase never sets it.
C23_AuthenticatedOnlyOnSuccessPhrase ==
    [][(~is_authenticated /\ is_authenticated') =>
          /\ pc = "login_post"
          /\ op \in {"login", "fetch"}
          /\ response'.req = "login_post"
          /\ response'.fault = "none"
          /\ response'.status = 200
          /\ response'.body.words \cap success_indicators # {}]_vars

C23_Witness ==
    /\ pc = "heatpump_get"
    /\ response.req = "login_post"
    /\ is_authenticated
    /\ ~hist.started_auth
    /\ hist.login = 1

\* The answer is a transport fault or carries a status other than 200.
FaultOrNot200(r) == r.fault # "none" \/ r.status # 200

\* C24: when the login page GET or the credential POST is answered with a
\* status other than 200, or fails in transport, login() raises
\* EpluconConnectionError from that step: the POST is not sent after such a
\* GET, the discovery GET is not sent, and is_authenticated is not set.
C24_LoginFaultRaisesConnectionError ==
    [][(pc \in {"login_get", "login_post"} /\ FaultOrNot200(response')) =>
          /\ pc' = "login_raised"
          /\ exc'.kind = "EpluconConnectionError"
          /\ is_authenticated' = is_authenticated
          /\ hist'.login_post = hist.login_post
          /\ hist'.heatpump_get = hist.heatpump_get]_vars

C24_Witness ==
    /\ pc = "login_raised"
    /\ response.req = "login_get"
    /\ response.fault = "none"
    /\ response.status = 500
    /\ exc.kind = "EpluconConnectionError"
    /\ hist.login_post = 0

\* The data response last received is a 200 whose JSON object has no html
\* field or an empty one, or whose content type is neither application/json
\* nor text/html.
NoContentServed ==
    /\ response.req \in {"data_get", "retry_get"}
    /\ response.fault = "none"
    /\ response.status = 200
    /\ \/ /\ response.ctype = "application/json"
          /\ response.body.json = "object"
          /\ response.body.html \in {None, ""}
       \/ response.ctype \notin {"application/json", "text/html"}

\* C25: a get_heat_pump_data() that ended on such a response has raised
\* EpluconConnectionError and has run neither _parse_html_data nor
\* _normalize_data.
C25_NoContentRaisesConnectionError ==
    (FetchEnded /\ NoContentServed) =>
        /\ outcome.how = "raised"
        /\ outcome.exc.kind = "EpluconConnectionError"
        /\ hist.extracted = 0
        /\ hist.normalized = 0

C25_Witness ==
    /\ FetchEnded
    /\ NoContentServed
    /\ response.req = "data_get"
    /\ response.ctype = "application/json"
    /\ response.body.html = None
    /\ Includes(outcome.exc, "No HTML content found in response")

\* C26: a get_heat_pump_data() whose first data GET was answered 401/403,
\* whose re-login returned and whose retried GET was answered 200 with a
\* JSON object holding a fragment in html, returns the normalized reading
\* extracted from that fragment.
C26_RetriedResponseIsReturned ==
    (/\ FetchEnded
     /\ hist.first_status \in {401, 403}
     /\ hist.retry_get = 1
     /\ response.req = "retry_get"
     /\ response.fault = "none"
     /\ response.status = 200
     /\ response.ctype = "application/json"
     /\ response.body.json = "object"
     /\ response.body.html \in Fragments) =>
        /\ outcome.how = "returned"
        /\ outcome.value = readings_of(response.body.html)

\* A fragment has been extracted.
Extracted == reading.stage \in {"raw", "normalized"} /\ reading.from = "html"

\* What the raw reading holds for a key with a fallback element, were the
\* fallback used exactly when the pointers gave no value for the key.
WithFallback(html, k, elems) ==
    LET p == Get(pointer_data(html.pointers), k)
    IN IF p # NoneVal THEN p
       ELSE IF elems # <<>> THEN extract_temperature(get_text(elems[1]))
       ELSE NoneVal

\* C27: for inside_temperature and inside_configured_temperature the raw
\* reading holds the pointer's value when the pointers gave one, and else
\* the value of the fallback element, also when a pointer for the key
\* exists whose text does not parse.
C27_FallbackUsedWhenPointerGaveNoValue ==
    Extracted =>
        /\ Get(reading.raw, "inside_temperature") =
               WithFallback(reading.html, "inside_temperature",
                            reading.html.inside_temp)
        /\ Get(reading.raw, "inside_configured_temperature") =
               WithFallback(reading.html, "inside_configured_temperature",
                            reading.html.inside_configured_temp)

\* The well-formed temperature texts among the pointer texts, each with the
\* number it states.
WellFormedTemperatures ==
    {[text |-> <<"4", "5", ".", "3", " ", "°", "C">>, number |-> Num(453, 1)],
     [text |-> <<"-", "5", "°", "C">>, number |-> Num(-5, 0)],
     [text |-> <<"1", "5", "0", ".", "5">>, number |-> Num(1505, 1)]}

\* The well-formed energy texts among the pointer texts, each with the
\* number it states.
WellFormedEnergies ==
    {[text |-> <<" ", "1", "2", " ", "k", "W", "h">>, number |-> Num(12, 0)],
     [text |-> <<"0", ".", "5", "k", "W", "h">>, number |-> Num(5, 1)]}

\* The data-types of the fixed table, by class, with their sensor keys.
TemperatureTypes ==
    {[data_type |-> "aanvoer-1", key |-> "supply_temperature_1"],
     [data_type |-> "aanvoer-2", key |-> "supply_temperature_2"],
     [data_type |-> "bron-1", key |-> "source_temperature_1"],
     [data_type |-> "bron-2", key |-> "source_temperature_2"],
     [data_type |-> "buitentemp", key |-> "outdoor_temperature"],
     [data_type |-> "binnen temp.", key |-> "inside_temperature"],
     [data_type |-> "ingestelde binnen temp. ", key |-> "inside_configured_temperature"],
     [data_type |-> "W.W. temperatuur.", key |-> "hot_water_temperature"],
     [data_type |-> "W.W. temperatuur. ingesteld",
      key |-> "hot_water_configured_temperature"]}

EnergyTypes ==
    {[data_type |-> "Opgenomen vermogen", key |-> "power_consumption"],
     [data_type |-> "Geleverde energie", key |-> "energy_delivered"]}

\* The pointer at position i is the last one of its data-type.
LastOfType(ps, i) == \A j \in (i + 1)..Len(ps) : ps[j].data_type # ps[i].data_type

\* The raw reading holds, for the pointer at position i, the key of its
\* data-type with the number its well-formed text states.
PointerYields(ps, i, types, texts) ==
    \A ty \in types : \A tx \in texts :
        (ps[i].data_type = ty.data_type /\ ps[i].text = tx.text) =>
            /\ ty.key \in DOMAIN reading.raw
            /\ reading.raw[ty.key] = tx.number

\* C28: an extracted fragment's raw reading holds, for every pointer whose
\* data-type is in the table (the last pointer of that data-type when it
\* is repeated) and whose text is well formed for its class, the mapped
\* key with the number of the text.
C28_WellFormedPointerIsExtracted ==
    Extracted =>
        \A i \in 1..Len(reading.html.pointers) :
            LastOfType(reading.html.pointers, i) =>
                /\ PointerYields(reading.html.pointers, i,
                                 TemperatureTypes, WellFormedTemperatures)
                /\ PointerYields(reading.html.pointers, i,
                                 EnergyTypes, WellFormedEnergies)

C28_Witness ==
    /\ Extracted
    /\ Len(reading.html.pointers) = 2
    /\ reading.html.pointers[1] =
           [data_type |-> "Opgenomen vermogen", text |-> <<" ", "1", "2", " ", "k", "W", "h">>]
    /\ reading.html.pointers[2] =
           [data_type |-> "binnen temp.", text |-> <<"4", "5", ".", "3", " ", "°", "C">>]
    /\ reading.raw["power_consumption"] = Num(12, 0)
    /\ reading.raw["inside_temperature"] = Num(453, 1)

\* C29: when login() has raised, is_authenticated is false.
C29_LoginRaisedLeavesUnauthenticated ==
    pc = "login_raised" => ~is_authenticated

\* C30: while a data GET is in flight, the first one or the retry,
\* is_authenticated is true and _account_module_index, the parameter of the
\* request, is set and not empty.
C30_DataGetAuthenticatedWithIdentifier ==
    pc \in {"data_get", "retry_get"} =>
        /\ is_authenticated
        /\ account_module_index # None
        /\ account_module_index # ""

C30_Witness ==
    /\ pc = "retry_get"
    /\ is_authenticated
    /\ account_module_index \in Tokens
    /\ last_closed # 0
    /\ hist.login = 3

-----------------------------------------------------------------------------
\* A refresh cycle has just failed on a data request of the session the
\* portal ended: answered 401/403, or by the login page as a 200 text/html
\* response; from here on the portal accepts the credentials.
RefreshFailedOnExpiredSession ==
    /\ portal.phase # "any"
    /\ coordinator.step = "idle"
    /\ coordinator.raised = "UpdateFailed"
    /\ FetchEnded
    /\ outcome.how = "raised"
    /\ hist.first_status \in {401, 403} \/ LoginPageServedAsData

\* A refresh cycle has just returned readings on a session that logged in
\* after the expiry.
RefreshReturnedReadings ==
    /\ portal.phase = "fresh"
    /\ coordinator.step = "idle"
    /\ coordinator.raised = "none"
    /\ FetchEnded
    /\ outcome.how = "returned"

\* C31: after a refresh cycle that failed because the session expired, with
\* the portal from then on accepting the credentials and serving data to a
\* fresh login, some later refresh cycle logs in again and returns readings.
C31_ExpiredSessionRecovers ==
    RefreshFailedOnExpiredSession ~> RefreshReturnedReadings

\* The same for a portal that answers the expired session with 401/403.
StatusExpiryRecovers ==
    (RefreshFailedOnExpiredSession /\ portal.answer = "status")
        ~> RefreshReturnedReadings

\* The cycle that failed on the login page served as data.
RefreshFailedOnLoginPage ==
    /\ RefreshFailedOnExpiredSession
    /\ portal.answer = "login_page"
    /\ LoginPageServedAsData

-----------------------------------------------------------------------------
\* The coordinator has ended a refresh cycle and updated its listeners.
RefreshEnded == coordinator.started /\ coordinator.step = "idle"

\* The keys of the reading the cycle just ended returned; none when the
\* cycle failed.
LatestReadingKeys ==
    IF FetchEnded /\ outcome.how = "returned" THEN DOMAIN outcome.value ELSE {}

\* C32: after every refresh cycle a sensor is available exactly when the
\* cycle succeeded and the reading it returned holds the sensor's key; a
\* failed cycle, or a key missing from the latest reading, leaves it
\* unavailable whatever an earlier cycle stored.
C32_AvailableIffKeyInLatestReading ==
    RefreshEnded =>
        \A k \in SENSOR_TYPES :
            k \in coordinator.sensors <=> k \in LatestReadingKeys

\* A cycle failed while the coordinator still holds the supply temperature
\* of an earlier cycle, and the sensor is unavailable.
C32_Witness ==
    /\ RefreshEnded
    /\ outcome.how = "raised"
    /\ ~coordinator.data.is_none
    /\ "supply_temperature_1" \in DOMAIN coordinator.data.dict
    /\ "supply_temperature_1" \notin coordinator.sensors

\* A cycle returned a reading without the outdoor temperature: that sensor
\* is unavailable while the sensors of the keys returned are available.
KeyDroppedFromLatestReading ==
    /\ RefreshEnded
    /\ LatestReadingKeys # {}
    /\ "outdoor_temperature" \notin LatestReadingKeys
    /\ "outdoor_temperature" \notin coordinator.sensors
    /\ coordinator.sensors = LatestReadingKeys

====
